---- MODULE Spec2Model ----
(***************************************************************************)
(* A model of scripts/check_sync.py, the script that checks the documented *)
(* API of libsemigroups (Doxygen XML) against the JlCxx binding sources of *)
(* Semigroups.jl.                                                          *)
(*                                                                         *)
(* Strings are sequences of tokens.  A token is a run of characters that   *)
(* no string operation of the script ever splits: "::", "_", a single      *)
(* upper-case letter, a lower-case word, ".method", "(", and so on.  A     *)
(* substring test on a Python string is a sub-sequence test on its tokens. *)
(***************************************************************************)
EXTENDS Integers, Sequences, FiniteSets, TLC

VARIABLES
    project_toml,   \* whether ./Project.toml is a file (main, line 316)
    args,           \* the parsed command line (the argparse namespace)
    xml_tree,       \* <libsemigroups_dir>/docs/xml, in directory (glob) order
    cpp_fs,         \* the binding sources that exist on disk: name -> text
    DOXY_DICT,      \* the module-level cache __DOXY_DICT
    stderr,         \* per symbol, how often __error reported it
    xml_reads,      \* per symbol, how often a documentation file was open()ed
    console,        \* what the operation in progress printed on the console
    opened,         \* the binding sources the last find_in_cpp open()ed
    last,           \* the last call: operation, arguments, result, exception
    pc,             \* position of main
    todo_things,    \* main: the things still to check
    todo_members,   \* check_thing: the members still to look up
    cur_thing,      \* check_thing: the qualified thing being checked
    member,         \* pattern check: the member whose pattern is built
    text            \* pattern check: the binding text searched

vars == << project_toml, args, xml_tree, cpp_fs, DOXY_DICT, stderr, xml_reads,
           console, opened, last, pc, todo_things, todo_members, cur_thing,
           member, text >>

-----------------------------------------------------------------------------
(* Bounds of the model.                                                    *)

\* The longest list of --cpp-files.
MaxFiles == 3
\* The longest list of things on the command line.
MaxThings == 2
\* How often one symbol's resolution may fail, and how often documentation
\* files may be opened for one symbol, before the harness stops calling.
MaxRepeat == 2
\* How many documentation files may have been opened for one symbol before
\* the harness stops calling.
MaxReads == 4
\* The longest run of word characters or of white space in a binding text.
MaxRun == 2

-----------------------------------------------------------------------------
(* Python string operations, on token sequences.                           *)

StartsWith(s, p) == Len(p) <= Len(s) /\ SubSeq(s, 1, Len(p)) = p

EndsWith(s, p) == Len(p) <= Len(s) /\ SubSeq(s, Len(s) - Len(p) + 1, Len(s)) = p

Contains(s, p) == \E i \in 0..(Len(s) - Len(p)) : SubSeq(s, i + 1, i + Len(p)) = p

\* The upper-case letters that occur in the names of the model, and str.lower.
Upper == {"F", "B"}

Lower(tok) == CASE tok = "F" -> "f" [] tok = "B" -> "b" [] OTHER -> tok

\* re.sub("_", "__", thing)
RECURSIVE DoubleUnderscores(_)
DoubleUnderscores(s) ==
    IF s = << >> THEN << >>
    ELSE (IF Head(s) = "_" THEN << "_", "_" >> ELSE << Head(s) >>)
         \o DoubleUnderscores(Tail(s))

\* re.compile(r"::").sub("_1_1", thing)
RECURSIVE ScopeToInfix(_)
ScopeToInfix(s) ==
    IF s = << >> THEN << >>
    ELSE << (IF Head(s) = "::" THEN "_1_1" ELSE Head(s)) >> \o ScopeToInfix(Tail(s))

\* re.compile(r"([A-Z])").sub(r"_\1", thing).lower()
RECURSIVE CamelToLower(_)
CamelToLower(s) ==
    IF s = << >> THEN << >>
    ELSE (IF Head(s) \in Upper THEN << "_", Lower(Head(s)) >> ELSE << Lower(Head(s)) >>)
         \o CamelToLower(Tail(s))

\* thing.split("_1_1")[-1]
RECURSIVE LastSegment(_)
LastSegment(s) ==
    IF \E i \in 1..Len(s) : s[i] = "_1_1"
    THEN LastSegment(Tail(s))
    ELSE s

-----------------------------------------------------------------------------
(* The documentation tree.  A file is [path, memberdefs, refs]: its path,  *)
(* its <memberdef> elements in document order, and the other names that    *)
(* occur in it as element text (">name<").                                 *)

XmlPath(dir, prefix, name) == dir \o << "/docs/xml/", prefix >> \o name \o << ".xml" >>

\* exists(fname) and isfile(fname)
IsFile(tree, fname) == \E k \in 1..Len(tree) : tree[k].path = fname

FileAt(tree, fname) == tree[CHOOSE k \in 1..Len(tree) : tree[k].path = fname]

\* glob(f"{dir}/docs/xml/group__*.xml"), in directory order
RECURSIVE GlobGroup(_, _)
GlobGroup(tree, dir) ==
    IF tree = << >> THEN << >>
    ELSE (IF StartsWith(Head(tree).path, dir \o << "/docs/xml/", "group__" >>)
          THEN << Head(tree) >> ELSE << >>)
         \o GlobGroup(Tail(tree), dir)

\* re.compile(rf">{thing}<").search(lines)
MentionsName(file, name) ==
    \/ name \in file.refs
    \/ \E k \in 1..Len(file.memberdefs) : file.memberdefs[k].name = name

\* The program state the helpers read and write, threaded through the calls.
State == [dict |-> DOXY_DICT, err |-> stderr, reads |-> xml_reads, console |-> console]

\* The value None, in the shape of a path, of a memberdef and of a fn_dict.
NonePath == << "None" >>
NoneTag == [name |-> << "None" >>, kind |-> "None", prot |-> "None"]

\* The scan of the group files (lines 129-135): each file is opened and read
\* until one mentions the name.  Returns the file found (or NonePath) and the
\* number of files opened.
RECURSIVE ScanGroups(_, _, _)
ScanGroups(files, name, n) ==
    IF files = << >> THEN [ret |-> NonePath, n |-> n]
    ELSE IF MentionsName(Head(files), name)
         THEN [ret |-> Head(files).path, n |-> n + 1]
         ELSE ScanGroups(Tail(files), name, n + 1)

-----------------------------------------------------------------------------
(* Doxygen XML helpers.  Each takes the program state st and returns the   *)
(* state it leaves with its result: [st, ret, none, exc], where none says  *)
(* that the result is None and exc names the exception that escaped.       *)

\* __error(msg), for the symbol the message names
ReportError(st, thing) == [st EXCEPT !.err[thing] = @ + 1]

\* open(fname) of documentation files, n times, on behalf of a symbol
CountReads(st, thing, n) == [st EXCEPT !.reads[thing] = @ + n]

doxygen_filename(st, thing) ==
    LET dir      == args.libsemigroups_dir
        doubled  == DoubleUnderscores(thing)
        by_group == XmlPath(dir, "group__", doubled)
        mangled  == CamelToLower(ScopeToInfix(doubled))
        direct   == [possible \in {"class", "struct", "namespace"} |->
                        XmlPath(dir, possible, mangled)]
        scan     == ScanGroups(GlobGroup(xml_tree, dir), LastSegment(mangled), 0)
    IN  IF EndsWith(doubled, << "_", "group" >>) /\ IsFile(xml_tree, by_group)
        THEN [st |-> st, ret |-> by_group, none |-> FALSE]
        ELSE IF IsFile(xml_tree, direct["class"])
        THEN [st |-> st, ret |-> direct["class"], none |-> FALSE]
        ELSE IF IsFile(xml_tree, direct["struct"])
        THEN [st |-> st, ret |-> direct["struct"], none |-> FALSE]
        ELSE IF IsFile(xml_tree, direct["namespace"])
        THEN [st |-> st, ret |-> direct["namespace"], none |-> FALSE]
        ELSE IF scan.ret # NonePath
        THEN [st |-> CountReads(st, thing, scan.n), ret |-> scan.ret, none |-> FALSE]
        ELSE [st |-> ReportError(CountReads(st, thing, scan.n), thing),
              ret |-> NonePath, none |-> TRUE]

\* Line 68, with f the result of doxygen_filename.
NamespaceIn(f) == [st |-> f.st, ret |-> (~f.none /\ Contains(f.ret, << "namespace" >>))]

is_namespace(st, thing) == NamespaceIn(doxygen_filename(st, thing))

\* Lines 152-160: the memberdefs of a file as a dict keyed by name.  A dict
\* keeps the order of first insertion; a later entry replaces the value.
RECURSIVE ParseMembers(_, _)
ParseMembers(fn_list, fn_dict) ==
    IF fn_list = << >> THEN fn_dict
    ELSE ParseMembers(Tail(fn_list),
             IF \E k \in 1..Len(fn_dict) : fn_dict[k].name = Head(fn_list).name
             THEN [k \in 1..Len(fn_dict) |->
                      IF fn_dict[k].name = Head(fn_list).name
                      THEN Head(fn_list) ELSE fn_dict[k]]
             ELSE Append(fn_dict, Head(fn_list)))

HasKey(fn_dict, fn) == \E k \in 1..Len(fn_dict) : fn_dict[k].name = fn

Lookup(fn_dict, fn) == fn_dict[CHOOSE k \in 1..Len(fn_dict) : fn_dict[k].name = fn]

\* The argument fn=None of get_xml.
NoFn == << "None" >>

\* Lines 161-163: the answer from the cache.  __DOXY_DICT[thing][fn] raises
\* KeyError for a name that is no key.
Fetch(st, thing, fn) ==
    IF fn = NoFn
    THEN [st |-> st, ret |-> st.dict[thing], none |-> FALSE, exc |-> "none"]
    ELSE IF HasKey(st.dict[thing], fn)
    THEN [st |-> st, ret |-> Lookup(st.dict[thing], fn), none |-> FALSE, exc |-> "none"]
    ELSE [st |-> st, ret |-> NoneTag, none |-> FALSE, exc |-> "KeyError"]

\* Lines 150-160: the file f.ret is opened, parsed and cached.
Store(f, thing) ==
    [CountReads(f.st, thing, 1) EXCEPT
        !.dict = (thing :> ParseMembers(FileAt(xml_tree, f.ret).memberdefs, << >>)) @@ @]

\* Lines 147-163, with f the result of doxygen_filename.
Load(f, thing, fn) ==
    IF f.none THEN [st |-> f.st, ret |-> NoneTag, none |-> TRUE, exc |-> "none"]
    ELSE Fetch(Store(f, thing), thing, fn)

\* get_xml, had line 146 not asked the cache first.
get_xml_uncached(st, thing, fn) == Load(doxygen_filename(st, thing), thing, fn)

get_xml(st, thing, fn) ==
    IF thing \in DOMAIN st.dict THEN Fetch(st, thing, fn)
    ELSE Load(doxygen_filename(st, thing), thing, fn)

\* Lines 75-78, with xml the result of get_xml.
ProtIsPublic(xml) ==
    IF xml.exc # "none" THEN [st |-> xml.st, ret |-> FALSE, exc |-> xml.exc]
    ELSE IF xml.none THEN [st |-> xml.st, ret |-> FALSE, exc |-> "none"]
    ELSE [st |-> xml.st, ret |-> (xml.ret.prot = "public"), exc |-> "none"]

\* Lines 72-78, with ns the result of is_namespace.
PublicIn(ns, thing, fn) ==
    IF ns.ret THEN [st |-> ns.st, ret |-> TRUE, exc |-> "none"]
    ELSE ProtIsPublic(get_xml(ns.st, thing, fn))

is_public(st, thing, fn) == PublicIn(is_namespace(st, thing), thing, fn)

\* Lines 83-86 and 91-94, with xml the result of get_xml.
KindIs(xml, kind) ==
    IF xml.exc # "none" THEN [st |-> xml.st, ret |-> FALSE, exc |-> xml.exc]
    ELSE IF xml.none THEN [st |-> xml.st, ret |-> FALSE, exc |-> "none"]
    ELSE [st |-> xml.st, ret |-> (xml.ret.kind = kind), exc |-> "none"]

is_typedef(st, thing, fn) == KindIs(get_xml(st, thing, fn), "typedef")

is_variable(st, thing, fn) == KindIs(get_xml(st, thing, fn), "variable")

is_operator(fn) == StartsWith(fn, << "operator" >>) /\ fn # << "operator", "()" >>

\* The conditions of _skip that read the names alone (lines 168-175).
SkipByName(fn) ==
    \/ EndsWith(fn, << "_no_checks" >>)
    \/ StartsWith(fn, << "cend" >>)
    \/ StartsWith(fn, << "end" >>)
    \/ StartsWith(fn, << "cbegin" >>)
    \/ StartsWith(fn, << "begin" >>)
    \/ StartsWith(fn, << "_" >>)
    \/ EndsWith(fn, << "_type" >>)
    \/ Contains(fn, << "iterator" >>)

\* What the console shows: one record per line printed.
Line(ev, thing, fn, file, line) ==
    [ev |-> ev, thing |-> thing, fn |-> fn, file |-> file, line |-> line]

\* Lines 181-186, with pub the result of the second is_public: the notice is
\* printed for a public member, and the member is skipped.
PrintIfPublic(pub, thing, fn) ==
    IF pub.exc # "none" THEN pub
    ELSE IF pub.ret
    THEN [st |-> [pub.st EXCEPT !.console = Append(@, Line("skipping", thing, fn, 0, 0))],
          ret |-> TRUE, exc |-> "none"]
    ELSE [st |-> pub.st, ret |-> TRUE, exc |-> "none"]

Skipped(st, thing, fn) == PrintIfPublic(is_public(st, thing, fn), thing, fn)

\* Line 179, with td the result of is_typedef.
SkipIfTypedef(td, thing, fn) ==
    IF td.exc # "none" \/ ~td.ret THEN td ELSE Skipped(td.st, thing, fn)

\* Lines 176-179, with pub the result of the first is_public.
SkipUnlessPublic(pub, thing, fn) ==
    IF pub.exc # "none" THEN pub
    ELSE IF \/ ~pub.ret
            \/ EndsWith(thing, fn)
            \/ fn \in {<< "operator", "=" >>, << "operator", "<<" >>}
    THEN Skipped(pub.st, thing, fn)
    ELSE SkipIfTypedef(is_typedef(pub.st, thing, fn), thing, fn)

\* _skip.  The conditions are tried in order and the first true one ends the
\* test (Python's or); is_public is then asked again for the notice.
_skip(st, thing, fn) ==
    IF SkipByName(fn) THEN Skipped(st, thing, fn)
    ELSE SkipUnlessPublic(is_public(st, thing, fn), thing, fn)

translate_to_jl(fn) ==
    CASE fn = << "operator", "==" >> -> << "is_equal" >>
      [] fn = << "operator", "!=" >> -> << "is_not_equal" >>
      [] fn = << "operator", "<" >>  -> << "is_less" >>
      [] fn = << "operator", ">" >>  -> << "is_greater" >>
      [] fn = << "operator", "<=" >> -> << "is_less_equal" >>
      [] fn = << "operator", ">=" >> -> << "is_greater_equal" >>
      [] fn = << "operator", "+" >>  -> << "add" >>
      [] fn = << "operator", "*" >>  -> << "multiply" >>
      [] fn = << "operator", "*=" >> -> << "multiply", "!" >>
      [] fn = << "operator", "+=" >> -> << "add", "!" >>
      [] fn = << "operator", "()" >> -> << "__call__" >>
      [] fn = << "at" >>             -> << "at" >>
      [] fn = << "operator", "[]" >> -> << "getindex" >>
      [] fn = << "hash_value" >>     -> << "hash" >>
      [] fn = << "to_human_readable_repr" >> -> << "to_string" >>
      [] fn = << "product_inplace" >> -> << "product_inplace", "!" >>
      [] fn = << "increase_degree_by" >> -> << "increase_degree_by", "!" >>
      [] OTHER -> fn

-----------------------------------------------------------------------------
(* Regular expressions.  A pattern is a sequence of elements               *)
(*   lit    one given token                                                *)
(*   alt    one token out of several (an alternation of literals)          *)
(*   star   a run of word characters or of white space, of any length     *)
(*   group  a run of word characters that is captured as group 1          *)
(* and a text is a sequence of tokens, each of one character class.        *)

Lit(tok) == [op |-> "lit", toks |-> {tok}, cls |-> "-"]
Alt(toks) == [op |-> "alt", toks |-> toks, cls |-> "-"]
Star(cls) == [op |-> "star", toks |-> {}, cls |-> cls]
Group(cls) == [op |-> "group", toks |-> {}, cls |-> cls]

Whitespace == {" ", "\n"}

\* The tokens of the model that hold a character outside [A-Za-z0-9_].
NonWord == Whitespace \cup {".method", ".set_const", ".add_bits", ".def", "(", ")", "\"",
                            ",", ";", "//", "!", "=", "==", "<<", "()", "[]"}

InClass(tok, cls) ==
    CASE cls = "w" -> tok \notin NonWord
      [] cls = "s" -> tok \in Whitespace
      [] OTHER -> FALSE

\* The length of the run of tokens of class cls that starts at txt[i].
RECURSIVE RunLen(_, _, _)
RunLen(txt, i, cls) ==
    IF i <= Len(txt) /\ InClass(txt[i], cls) THEN 1 + RunLen(txt, i + 1, cls) ELSE 0

\* re.escape(fn): every token of the name matches itself and nothing else.
RECURSIVE re_escape(_)
re_escape(fn) ==
    IF fn = << >> THEN << >> ELSE << Lit(Head(fn)) >> \o re_escape(Tail(fn))

\* Every way pat[k..] matches txt from position i on: where the match ends
\* and how many tokens the group captured.
RECURSIVE MatchAt(_, _, _, _, _)
MatchAt(pat, k, txt, i, cap) ==
    IF k > Len(pat) THEN {[end |-> i, cap |-> cap]}
    ELSE LET e == pat[k]
         IN  IF e.op \in {"lit", "alt"}
             THEN IF i <= Len(txt) /\ txt[i] \in e.toks
                  THEN MatchAt(pat, k + 1, txt, i + 1, cap)
                  ELSE {}
             ELSE UNION { MatchAt(pat, k + 1, txt, i + n,
                                  IF e.op = "group" THEN n ELSE cap) :
                          n \in 0..RunLen(txt, i, e.cls) }

\* The match the backtracking search finds first: the greediest.
FirstMatch(ms) ==
    CHOOSE m \in ms : \A o \in ms : o.cap < m.cap \/ (o.cap = m.cap /\ o.end <= m.end)

\* re.finditer(pattern, lines, re.DOTALL): the matches from the left, none
\* overlapping another.
RECURSIVE finditer(_, _, _)
finditer(pat, txt, i) ==
    IF i > Len(txt) THEN << >>
    ELSE LET ms == MatchAt(pat, 1, txt, i, 0)
         IN  IF ms = {} THEN finditer(pat, txt, i + 1)
             ELSE LET m == FirstMatch(ms)
                  IN  << [start |-> i, end |-> m.end, cap |-> m.cap] >>
                      \o finditer(pat, txt, m.end)

\* text.split("\n"): the lines of a text.
RECURSIVE SplitLines(_, _)
SplitLines(txt, line) ==
    IF txt = << >> THEN << line >>
    ELSE IF Head(txt) = "\n" THEN << line >> \o SplitLines(Tail(txt), << >>)
    ELSE SplitLines(Tail(txt), Append(line, Head(txt)))

\* line[:line.find("//")] when the line holds "//", else the line
RECURSIVE CutComment(_)
CutComment(line) ==
    IF line = << >> \/ Head(line) = "//" THEN << >>
    ELSE << Head(line) >> \o CutComment(Tail(line))

_strip_cxx_comments(lines) == [i \in 1..Len(lines) |-> CutComment(lines[i])]

\* "\n".join(lines)
RECURSIVE JoinLines(_)
JoinLines(lines) ==
    IF Len(lines) = 0 THEN << >>
    ELSE IF Len(lines) = 1 THEN Head(lines)
    ELSE Head(lines) \o << "\n" >> \o JoinLines(Tail(lines))

\* lines[: match.start()].count("\n") + 1
LineNum(txt, start) == Cardinality({j \in 1..(start - 1) : txt[j] = "\n"}) + 1

\* The pattern of a variable, had line 245 left .method out of the alternation.
VariablePatternNoMethod(quoted) ==
    << Alt({".set_const", ".add_bits"}), Star("w"), Lit("("), Star("s") >> \o quoted

\* The pattern of the other members, had line 247 no \s* after the parenthesis.
MethodPatternNoSpace(quoted) == << Lit(".method"), Lit("(") >> \o quoted

\* Line 245: the pattern of a variable.
VariablePattern(quoted) ==
    << Alt({".method", ".set_const", ".add_bits"}), Star("w"), Lit("("), Star("s") >>
    \o quoted

\* Line 247: the pattern of every other member.
MethodPattern(quoted) == << Lit(".method"), Lit("("), Star("s") >> \o quoted

\* Line 242: the quoted name, with any word characters before it captured.
Quoted(fn_escaped) == << Lit("\""), Group("w") >> \o fn_escaped \o << Lit("\"") >>

\* Lines 243-248, with var the result of is_variable.
PatternFor(var, fn) ==
    IF var.exc # "none" THEN [st |-> var.st, ret |-> << >>, exc |-> var.exc]
    ELSE IF var.ret
    THEN [st |-> var.st, ret |-> VariablePattern(Quoted(re_escape(translate_to_jl(fn)))),
          exc |-> "none"]
    ELSE [st |-> var.st, ret |-> MethodPattern(Quoted(re_escape(translate_to_jl(fn)))),
          exc |-> "none"]

\* is_namespace is asked first (line 235); both its branches build the same
\* pattern.  is_variable is asked about the C++ name (line 243).
_regex_pattern(st, thing, fn) ==
    PatternFor(is_variable(is_namespace(st, thing).st, thing, fn), fn)

-----------------------------------------------------------------------------
(* finders                                                                 *)

\* Lines 259-265: the text of a file without its comments.
CodeOf(contents) == JoinLines(_strip_cxx_comments(SplitLines(contents, << >>)))

\* Line 266: the matches of a pattern in the text of one file.
Matches(pattern, contents) == finditer(pattern, CodeOf(contents), 1)

\* Lines 273-301: the report of the matches found in file k.
RECURSIVE ReportMatches(_, _, _, _, _, _)
ReportMatches(out, thing, fn, k, lines, matches) ==
    IF matches = << >> THEN out
    ELSE LET m        == Head(matches)
             line_num == LineNum(lines, m.start)
             verdict  == IF m.cap = 0 THEN "found" ELSE "possibly_found"
         IN  ReportMatches(out \o << Line(verdict, thing, fn, k, line_num),
                                     Line("excerpt", thing, fn, k, line_num) >>,
                           thing, fn, k, lines, Tail(matches))

\* Lines 256-301: the loop over args.cpp_files, from file k on.  seen lists
\* the files open() was called on so far.
RECURSIVE SearchFiles(_, _, _, _, _, _)
SearchFiles(st, seen, thing, fn, pattern, k) ==
    IF k > Len(args.cpp_files)
    THEN [st |-> st, opened |-> seen, skipped |-> FALSE, exc |-> "none"]
    ELSE LET cpp_file_name == args.cpp_files[k]
             lines   == CodeOf(cpp_fs[cpp_file_name])
             matches == Matches(pattern, cpp_fs[cpp_file_name])
         IN  IF cpp_file_name \notin DOMAIN cpp_fs
             THEN SearchFiles(
                      [st EXCEPT !.console =
                          Append(@, Line("file_not_found", thing, fn, k, 0))],
                      Append(seen, k), thing, fn, pattern, k + 1)
             ELSE IF Len(matches) = 0
             THEN [st |-> [st EXCEPT !.console =
                              Append(@, Line("not_found", thing, fn, 0, 0))],
                   opened |-> Append(seen, k), skipped |-> FALSE, exc |-> "none"]
             ELSE SearchFiles(
                      [st EXCEPT !.console =
                          ReportMatches(@, thing, fn, k, lines, matches)],
                      Append(seen, k), thing, fn, pattern, k + 1)

\* Lines 256-301, with pattern the result of _regex_pattern.  The loop over
\* None, the value of args.cpp_files when the option is not given, raises
\* TypeError.
SearchWith(pattern, thing, fn) ==
    IF pattern.exc # "none"
    THEN [st |-> pattern.st, opened |-> << >>, skipped |-> FALSE, exc |-> pattern.exc]
    ELSE IF args.cpp_files_none
    THEN [st |-> pattern.st, opened |-> << >>, skipped |-> FALSE, exc |-> "TypeError"]
    ELSE SearchFiles(pattern.st, << >>, thing, fn, pattern.ret, 1)

\* Lines 253-255, with skipped the result of _skip.
UnlessSkipped(skipped, thing, fn) ==
    IF skipped.exc # "none" \/ skipped.ret
    THEN [st |-> skipped.st, opened |-> << >>, skipped |-> skipped.ret,
          exc |-> skipped.exc]
    ELSE SearchWith(_regex_pattern(skipped.st, thing, fn), thing, fn)

find_in_cpp(st, thing, fn) == UnlessSkipped(_skip(st, thing, fn), thing, fn)

\* Lines 305-306 of check_thing.
Qualify(thing) ==
    IF StartsWith(thing, << "libsemigroups", "::" >>) THEN thing
    ELSE << "libsemigroups", "::" >> \o thing

\* The keys of a fn_dict other than the thing itself (lines 310-311).
RECURSIVE MembersToCheck(_, _)
MembersToCheck(fn_dict, thing) ==
    IF fn_dict = << >> THEN << >>
    ELSE (IF Head(fn_dict).name # thing THEN << Head(fn_dict).name >> ELSE << >>)
         \o MembersToCheck(Tail(fn_dict), thing)

-----------------------------------------------------------------------------
(* The inputs the model runs on: symbols, documentation trees, binding     *)
(* sources and command lines.                                              *)

SymFoo == << "libsemigroups", "::", "F", "oo" >>
SymGrp == << "libsemigroups", "::", "paths", "_", "group" >>
Symbols == {SymFoo, SymGrp}

\* The documentation root: a plain path, and one with "namespace" in it.
Dirs == { << "/opt/", "libsemigroups" >>, << "/opt/", "namespace", "-docs/", "libsemigroups" >> }

Def(name, kind, prot) == [name |-> name, kind |-> kind, prot |-> prot]

\* The memberdefs of a documentation file.  size is documented twice.
DocMembers ==
    << Def(<< "size" >>, "function", "protected"),
       Def(<< "npos" >>, "variable", "public"),
       Def(<< "F", "oo" >>, "function", "public"),
       Def(<< "impl" >>, "function", "private"),
       Def(<< "alias" >>, "typedef", "public"),
       Def(<< "operator", "==" >>, "function", "public"),
       Def(<< "size" >>, "function", "public"),
       Def(<< "begin" >>, "function", "public") >>

\* The member names asked about: the documented ones, and one that no file
\* documents.
Names == {DocMembers[k].name : k \in 1..Len(DocMembers)} \cup {<< "ghost" >>}

XmlFile(path, refs) == [path |-> path, memberdefs |-> DocMembers, refs |-> refs]

FooMangled == CamelToLower(ScopeToInfix(DoubleUnderscores(SymFoo)))

FooLayouts == {"none", "class", "struct", "namespace", "class+namespace", "group"}
GrpLayouts == {"none", "suffix"}

\* The files that document SymFoo under each layout.
FooFiles(dir, layout) ==
    CASE layout = "class" -> << XmlFile(XmlPath(dir, "class", FooMangled), {}) >>
      [] layout = "struct" -> << XmlFile(XmlPath(dir, "struct", FooMangled), {}) >>
      [] layout = "namespace" -> << XmlFile(XmlPath(dir, "namespace", FooMangled), {}) >>
      [] layout = "class+namespace" ->
            << XmlFile(XmlPath(dir, "namespace", FooMangled), {}),
               XmlFile(XmlPath(dir, "class", FooMangled), {}) >>
      [] layout = "group" ->
            << XmlFile(XmlPath(dir, "group__", << "misc" >>), {}),
               XmlFile(XmlPath(dir, "group__", << "foo" >>), {LastSegment(FooMangled)}) >>
      [] OTHER -> << >>

GrpFiles(dir, layout) ==
    IF layout = "suffix"
    THEN << XmlFile(XmlPath(dir, "group__", DoubleUnderscores(SymGrp)), {}) >>
    ELSE << >>

XmlTree(dir, foo, grp) == FooFiles(dir, foo) \o GrpFiles(dir, grp)

\* The binding sources on disk.  gone.cpp is not among them.
CppFs ==
    [ f \in {"size.cpp", "npos.cpp", "misc.cpp"} |->
        CASE f = "size.cpp" ->
               << "m", ".method", "(", "\"", "size", "\"", ",", "f", ")", ";", "\n",
                  "//", ".set_const", "(", "\"", "npos", "\"", ")", ";", "\n",
                  "m", ".method", "(", " ", "\"", "is_equal", "\"", ",", "g", ")", ";" >>
          [] f = "npos.cpp" ->
               << "m", ".set_const", "(", "\"", "npos", "\"", ",", "v", ")", ";", "\n",
                  "m", ".method", "(", "\n", " ", "\"", "my_", "size", "\"", ",", "f", ")", ";" >>
          [] OTHER ->
               << "int", " ", "size", ";", "\n", "//", ".method", "(", "\"", "size", "\"", ")" >> ]

CppNames == DOMAIN CppFs \cup {"gone.cpp"}

\* The lists of at most n file names.
RECURSIVE FileLists(_)
FileLists(n) ==
    IF n = 0 THEN {<< >>}
    ELSE FileLists(n - 1)
         \cup {Append(l, f) : l \in {x \in FileLists(n - 1) : Len(x) = n - 1}, f \in CppNames}

Args(things, dir, cpp_files, none) ==
    [things |-> things, libsemigroups_dir |-> dir, cpp_files |-> cpp_files,
     cpp_files_none |-> none]

Zero == [s \in Symbols |-> 0]
NoDict == << >>
NoCall == [op |-> "none", thing |-> << >>, fn |-> << >>, ret |-> "None", exc |-> "none"]
NoMember == Def(<< >>, "None", "None")

Call(op, thing, fn, ret, exc) ==
    [op |-> op, thing |-> thing, fn |-> fn, ret |-> ret, exc |-> exc]

Bool(b) == IF b THEN "True" ELSE "False"

-----------------------------------------------------------------------------
(* The operations of the module, each called on the things of the command  *)
(* line with any member name, in any order.  The console and the list of   *)
(* opened files start empty with each call; the cache and the counters are *)
(* the module's for the whole run.                                         *)

Fresh == [State EXCEPT !.console = << >>]

Commit(st) ==
    /\ DOXY_DICT' = st.dict
    /\ stderr' = st.err
    /\ xml_reads' = st.reads
    /\ console' = st.console

\* The counters of a symbol are bounded: no call once they are at the bound.
Calm(thing) == stderr[thing] < MaxRepeat /\ xml_reads[thing] < MaxReads

World == << project_toml, args, xml_tree, cpp_fs, member, text >>
MainVars == << pc, todo_things, todo_members, cur_thing >>

\* A call returned with result r; ret is what the caller sees.
Returned(op, thing, fn, r, ret, files) ==
    /\ Commit(r.st)
    /\ last' = Call(op, thing, fn, IF r.exc # "none" THEN "raised" ELSE ret, r.exc)
    /\ opened' = files
    /\ UNCHANGED << World, MainVars >>

XmlResult(r, fn) == IF r.none THEN "None" ELSE IF fn = NoFn THEN "dict" ELSE "Tag"

GotXml(r, thing, fn) == Returned("get_xml", thing, fn, r, XmlResult(r, fn), << >>)

GetXml(thing, fn) ==
    pc = "idle" /\ Calm(thing) /\ GotXml(get_xml(Fresh, thing, fn), thing, fn)

NoExc(r) == [st |-> r.st, ret |-> r.ret, exc |-> "none"]

Asked(op, r, thing, fn) == Returned(op, thing, fn, r, Bool(r.ret), << >>)

IsNamespace(thing) ==
    /\ pc = "idle" /\ Calm(thing)
    /\ Asked("is_namespace", NoExc(is_namespace(Fresh, thing)), thing, NoFn)

IsPublic(thing, fn) ==
    pc = "idle" /\ Calm(thing) /\ Asked("is_public", is_public(Fresh, thing, fn), thing, fn)

IsTypedef(thing, fn) ==
    pc = "idle" /\ Calm(thing) /\ Asked("is_typedef", is_typedef(Fresh, thing, fn), thing, fn)

IsVariable(thing, fn) ==
    pc = "idle" /\ Calm(thing) /\ Asked("is_variable", is_variable(Fresh, thing, fn), thing, fn)

Skip(thing, fn) ==
    pc = "idle" /\ Calm(thing) /\ Asked("_skip", _skip(Fresh, thing, fn), thing, fn)

PatternKind(pattern) ==
    IF pattern # << >> /\ Head(pattern).op = "alt" THEN "variable pattern"
    ELSE "method pattern"

Built(r, thing, fn) ==
    Returned("_regex_pattern", thing, fn, r, PatternKind(r.ret), << >>)

RegexPattern(thing, fn) ==
    pc = "idle" /\ Calm(thing) /\ Built(_regex_pattern(Fresh, thing, fn), thing, fn)

\* find_in_cpp returns None; ret records whether the member was skipped.
Searched(r, thing, fn) ==
    Returned("find_in_cpp", thing, fn, r,
             IF r.skipped THEN "skipped" ELSE "searched", r.opened)

FindInCpp(thing, fn) ==
    pc = "idle" /\ Calm(thing) /\ Searched(find_in_cpp(Fresh, thing, fn), thing, fn)

Init ==
    /\ project_toml = TRUE
    /\ \E thing \in Symbols, dir \in Dirs, foo \in FooLayouts, grp \in GrpLayouts :
          /\ thing = SymGrp => foo \in {"none", "group"}
          /\ args = Args(<< thing >>, dir, << "gone.cpp", "npos.cpp" >>, FALSE)
          /\ xml_tree = XmlTree(dir, foo, grp)
    /\ cpp_fs = CppFs
    /\ DOXY_DICT = NoDict
    /\ stderr = Zero
    /\ xml_reads = Zero
    /\ console = << >>
    /\ opened = << >>
    /\ last = NoCall
    /\ pc = "idle"
    /\ todo_things = << >>
    /\ todo_members = << >>
    /\ cur_thing = << >>
    /\ member = NoMember
    /\ text = << >>

Things == {args.things[i] : i \in 1..Len(args.things)}

CallGetXml == \E thing \in Things, fn \in Names \cup {NoFn} : GetXml(thing, fn)
CallIsNamespace == \E thing \in Things : IsNamespace(thing)
CallIsPublic == \E thing \in Things, fn \in Names : IsPublic(thing, fn)
CallIsTypedef == \E thing \in Things, fn \in Names : IsTypedef(thing, fn)
CallIsVariable == \E thing \in Things, fn \in Names : IsVariable(thing, fn)
CallSkip == \E thing \in Things, fn \in Names : Skip(thing, fn)
CallRegexPattern == \E thing \in Things, fn \in Names : RegexPattern(thing, fn)
CallFindInCpp == \E thing \in Things, fn \in Names : FindInCpp(thing, fn)

Next ==
    \/ CallGetXml
    \/ CallIsNamespace
    \/ CallIsPublic
    \/ CallIsTypedef
    \/ CallIsVariable
    \/ CallSkip
    \/ CallRegexPattern
    \/ CallFindInCpp

Spec == Init /\ [][Next]_vars

-----------------------------------------------------------------------------
(* find_in_cpp on every list of binding sources.                           *)

InitSearch ==
    /\ project_toml = TRUE
    /\ \E foo \in {"class", "namespace"}, files \in FileLists(MaxFiles) \ {<< >>} :
          /\ args = Args(<< SymFoo >>, << "/opt/", "libsemigroups" >>, files, FALSE)
          /\ xml_tree = XmlTree(<< "/opt/", "libsemigroups" >>, foo, "none")
    /\ cpp_fs = CppFs
    /\ DOXY_DICT = NoDict
    /\ stderr = Zero
    /\ xml_reads = Zero
    /\ console = << >>
    /\ opened = << >>
    /\ last = NoCall
    /\ pc = "idle"
    /\ todo_things = << >>
    /\ todo_members = << >>
    /\ cur_thing = << >>
    /\ member = NoMember
    /\ text = << >>

NextSearch == CallFindInCpp

SpecSearch == InitSearch /\ [][NextSearch]_vars

-----------------------------------------------------------------------------
(* main: the script run on a command line.                                 *)

\* The things a command line may name, qualified or not.
MainThings == { << "F", "oo" >>, SymFoo, << "paths", "_", "group" >> }

RECURSIVE ThingLists(_)
ThingLists(n) ==
    IF n = 0 THEN {<< >>}
    ELSE ThingLists(n - 1)
         \cup {Append(l, t) : l \in {x \in ThingLists(n - 1) : Len(x) = n - 1}, t \in MainThings}

\* Lines 316-321: the marker file is required; then the arguments are parsed
\* and the loop over args.things starts.
MainStart ==
    /\ pc = "start"
    /\ IF project_toml
       THEN /\ pc' = "things"
            /\ todo_things' = args.things
            /\ last' = NoCall
       ELSE /\ pc' = "raised"
            /\ todo_things' = << >>
            /\ last' = Call("main", << >>, << >>, "raised", "Exception")
    /\ UNCHANGED << World, DOXY_DICT, stderr, xml_reads, console, opened,
                    todo_members, cur_thing >>

\* check_thing up to its loop, with xml the result of get_xml(args, thing).
Checked(xml, thing) ==
    /\ Commit(xml.st)
    /\ last' = Call("check_thing", thing, NoFn, XmlResult(xml, NoFn), "none")
    /\ todo_things' = Tail(todo_things)
    /\ cur_thing' = thing
    /\ todo_members' = IF xml.none THEN << >> ELSE MembersToCheck(xml.ret, thing)
    /\ pc' = IF xml.none \/ MembersToCheck(xml.ret, thing) = << >>
             THEN "things" ELSE "members"
    /\ opened' = << >>
    /\ UNCHANGED World

CheckThing ==
    /\ pc = "things" /\ todo_things # << >>
    /\ Checked(get_xml(Fresh, Qualify(Head(todo_things)), NoFn),
               Qualify(Head(todo_things)))

\* One turn of the loop of check_thing, with r the result of find_in_cpp.  An
\* exception is caught nowhere: it ends the run.
Found(r, fn) ==
    /\ Commit(r.st)
    /\ opened' = r.opened
    /\ last' = Call("find_in_cpp", cur_thing, fn,
                    IF r.exc # "none" THEN "raised"
                    ELSE IF r.skipped THEN "skipped" ELSE "searched", r.exc)
    /\ todo_members' = Tail(todo_members)
    /\ pc' = IF r.exc # "none" THEN "raised"
             ELSE IF Tail(todo_members) = << >> THEN "things" ELSE "members"
    /\ UNCHANGED << World, todo_things, cur_thing >>

CheckMember ==
    /\ pc = "members"
    /\ Found(find_in_cpp(Fresh, cur_thing, Head(todo_members)), Head(todo_members))

\* Line 324: sys.exit(0).
Exit ==
    /\ pc = "things" /\ todo_things = << >>
    /\ pc' = "exit 0"
    /\ UNCHANGED << World, DOXY_DICT, stderr, xml_reads, console, opened, last,
                    todo_things, todo_members, cur_thing >>

InitMain ==
    /\ project_toml \in BOOLEAN
    /\ \E things \in ThingLists(MaxThings) \ {<< >>},
          foo \in {"none", "class", "namespace"}, grp \in GrpLayouts,
          none \in BOOLEAN, files \in {<< "size.cpp" >>, << "gone.cpp", "npos.cpp" >>} :
          /\ none => files = << "size.cpp" >>
          /\ args = Args(things, << "/opt/", "libsemigroups" >>,
                         IF none THEN << >> ELSE files, none)
          /\ xml_tree = XmlTree(<< "/opt/", "libsemigroups" >>, foo, grp)
    /\ cpp_fs = CppFs
    /\ DOXY_DICT = NoDict
    /\ stderr = Zero
    /\ xml_reads = Zero
    /\ console = << >>
    /\ opened = << >>
    /\ last = NoCall
    /\ pc = "start"
    /\ todo_things = << >>
    /\ todo_members = << >>
    /\ cur_thing = << >>
    /\ member = NoMember
    /\ text = << >>

NextMain == MainStart \/ CheckThing \/ CheckMember \/ Exit

SpecMain == InitMain /\ [][NextMain]_vars

-----------------------------------------------------------------------------
(* The pattern of a member, tried on a registration call.                  *)

RECURSIVE Rep(_, _)
Rep(tok, n) == IF n = 0 THEN << >> ELSE << tok >> \o Rep(tok, n - 1)

\* A registration call: a token, word characters after it, white space
\* before and after the parenthesis, word characters before the name inside
\* the quotes, the name; the line may be a comment.
Bindings ==
    [tok : {".method", ".set_const", ".add_bits", ".def"}, word : 0..MaxRun,
     before : 0..MaxRun, after : 0..MaxRun, prefix : 0..MaxRun,
     name : {<< "size" >>, << "is_equal" >>}, comment : BOOLEAN]

TextOf(b) ==
    << "int", " ", "x", ";", "\n" >>
    \o (IF b.comment THEN << "//", " " >> ELSE << >>)
    \o << "m", b.tok >> \o Rep("x", b.word) \o Rep(" ", b.before) \o << "(" >>
    \o Rep(" ", b.after) \o << "\"" >> \o Rep("x", b.prefix) \o b.name
    \o << "\"", ",", "f", ")", ";" >>

\* Lines 266-286 on one text: no match, or the verdict on the first match.
Verdict(matches) ==
    IF Len(matches) = 0 THEN "not_found"
    ELSE IF Head(matches).cap = 0 THEN "found" ELSE "possibly_found"

Tried(r, fn) ==
    /\ Commit(r.st)
    /\ last' = Call("search", SymFoo, fn,
                    IF r.exc # "none" THEN "raised"
                    ELSE Verdict(Matches(r.ret, TextOf(text))), r.exc)
    /\ pc' = "done"
    /\ UNCHANGED << World, opened, todo_things, todo_members, cur_thing >>

TryPattern ==
    /\ pc = "pattern"
    /\ Tried(_regex_pattern(Fresh, SymFoo, member.name), member.name)

InitPattern ==
    /\ project_toml = TRUE
    /\ args = Args(<< SymFoo >>, << "/opt/", "libsemigroups" >>, << >>, FALSE)
    /\ member \in {Def(name, kind, "public") :
                      name \in {<< "size" >>, << "operator", "==" >>},
                      kind \in {"function", "variable", "typedef"}}
    /\ xml_tree = << [path |-> XmlPath(<< "/opt/", "libsemigroups" >>, "class", FooMangled),
                      memberdefs |-> << member >>, refs |-> {}] >>
    /\ text \in Bindings
    /\ cpp_fs = CppFs
    /\ DOXY_DICT = NoDict
    /\ stderr = Zero
    /\ xml_reads = Zero
    /\ console = << >>
    /\ opened = << >>
    /\ last = NoCall
    /\ pc = "pattern"
    /\ todo_things = << >>
    /\ todo_members = << >>
    /\ cur_thing = << >>

NextPattern == TryPattern

SpecPattern == InitPattern /\ [][NextPattern]_vars

-----------------------------------------------------------------------------
(* What the claims speak of.                                               *)

\* The symbol has a documentation file, and the file it resolves to.
Resolves(thing) == ~doxygen_filename(Fresh, thing).none
ResolvedFile(thing) == doxygen_filename(Fresh, thing).ret

\* The file is <dir>/docs/xml/<prefix>....xml.
HasPrefix(path, prefix) == StartsWith(path, args.libsemigroups_dir \o << "/docs/xml/", prefix >>)

\* The member is one of the documented members of the symbol.
Documented(thing, fn) ==
    /\ Resolves(thing)
    /\ \E k \in 1..Len(FileAt(xml_tree, ResolvedFile(thing)).memberdefs) :
          FileAt(xml_tree, ResolvedFile(thing)).memberdefs[k].name = fn

\* The symbol's file is found by its name, without a search of the group files.
FoundByName(thing) ==
    \E prefix \in {"class", "struct", "namespace"} :
       IsFile(xml_tree, XmlPath(args.libsemigroups_dir, prefix,
                                CamelToLower(ScopeToInfix(DoubleUnderscores(thing)))))

\* File k of args.cpp_files exists and holds a match of the member's pattern.
FileMatches(k, thing, fn) ==
    /\ args.cpp_files[k] \in DOMAIN cpp_fs
    /\ Len(Matches(_regex_pattern(Fresh, thing, fn).ret, cpp_fs[args.cpp_files[k]])) > 0

Printed(evs, k) == \E i \in 1..Len(console) : console[i].ev \in evs /\ console[i].file = k

HowMany(ev) == Cardinality({i \in 1..Len(console) : console[i].ev = ev})

WasOpened(k) == \E i \in 1..Len(opened) : opened[i] = k

\* The last call was find_in_cpp, and it did not skip the member.
SearchedMember == last.op = "find_in_cpp" /\ last.ret = "searched"

-----------------------------------------------------------------------------
(* The claims.                                                             *)

\* C1: for a member that is not skipped, a file of the list that holds a
\* match is reported as found or possibly found, whatever its position in
\* the list, and "not found!" is printed only when no file of the list
\* holds a match.
C1_FoundWhereverItIs ==
    SearchedMember =>
       \A k \in 1..Len(args.cpp_files) :
          FileMatches(k, last.thing, last.fn) =>
             /\ Printed({"found", "possibly_found"}, k)
             /\ HowMany("not_found") = 0

\* C2: for a member that is not skipped and that no file of the list matches
\* (files that do not exist included), "not found!" is printed exactly once,
\* last, after every file of the list was tried.
C2_MissingOnceAfterLastFile ==
    (SearchedMember /\ \A k \in 1..Len(args.cpp_files) : ~FileMatches(k, last.thing, last.fn))
    => /\ HowMany("not_found") = 1
       /\ console[Len(console)].ev = "not_found"
       /\ opened = [k \in 1..Len(args.cpp_files) |-> k]

\* C3: for a member that is not skipped, every file of the list that does
\* not exist is reported as "File not found", and every file after it is
\* still tried.
C3_AbsentFileReportedAndPassed ==
    SearchedMember =>
       \A k \in 1..Len(args.cpp_files) :
          args.cpp_files[k] \notin DOMAIN cpp_fs =>
             /\ Printed({"file_not_found"}, k)
             /\ \A j \in (k + 1)..Len(args.cpp_files) : WasOpened(j)

\* C4: when there is no metadata for (symbol, name), because the symbol has
\* no documentation file or because the file does not document the name,
\* get_xml returns None, is_typedef and is_variable return False, and so
\* does is_public unless the symbol is a namespace; none of them raises.
C4_NoMetadataNoError ==
    (/\ last.op \in {"get_xml", "is_typedef", "is_variable", "is_public"}
     /\ last.fn # NoFn
     /\ ~Documented(last.thing, last.fn)
     /\ last.op = "is_public" => ~is_namespace(Fresh, last.thing).ret)
    => /\ last.exc = "none"
       /\ last.ret = (IF last.op = "get_xml" THEN "None" ELSE "False")

\* C5: once get_xml has returned None for a symbol because it has no
\* documentation file, the next query on the symbol runs no resolution and
\* reports nothing: neither the count of diagnostics for the symbol nor the
\* count of files opened for it grows, and get_xml returns None again.
C5_NotFoundReportedOnce ==
    [][\A t \in Symbols :
          (last.op = "get_xml" /\ last.thing = t /\ last.ret = "None") =>
             /\ stderr'[t] = stderr[t]
             /\ xml_reads'[t] = xml_reads[t]
             /\ (last'.op = "get_xml" /\ last'.thing = t => last'.ret = "None")]_vars

\* The binding text registers the member's translated name, outside a
\* comment, with nothing between the registration token and the parenthesis.
RegistersName == text.name = translate_to_jl(member.name) /\ ~text.comment
Matched == last.ret \in {"found", "possibly_found"}

\* C6 as claimed: the pattern of a variable matches only after .set_const or
\* .add_bits, the pattern of any other member only after .method.
C6_VariableOnlyByConstOrBits ==
    (last.op = "search" /\ Matched) =>
       /\ text.name = translate_to_jl(member.name)
       /\ IF member.kind = "variable" THEN text.tok \in {".set_const", ".add_bits"}
          ELSE text.tok = ".method"

\* C6 as amended: the pattern of a variable matches only where the quoted
\* name follows .method, .set_const or .add_bits, the pattern of any other
\* member only where it follows .method; a variable registered through
\* .method("name" is matched.
C6_VariableAlsoByMethod ==
    last.op = "search" =>
       /\ Matched =>
             /\ text.name = translate_to_jl(member.name)
             /\ IF member.kind = "variable"
                THEN text.tok \in {".method", ".set_const", ".add_bits"}
                ELSE text.tok = ".method" /\ text.word = 0
       /\ (member.kind = "variable" /\ text.tok = ".method" /\ RegistersName
           /\ text.before = 0) => Matched

C6_Witness ==
    /\ last.op = "search" /\ last.ret = "found"
    /\ member.kind = "variable" /\ text.tok = ".method"

\* The registration token is one the member's pattern accepts.
RightToken ==
    IF member.kind = "variable" THEN text.tok \in {".method", ".set_const", ".add_bits"}
    ELSE text.tok = ".method" /\ text.word = 0

\* C7 as claimed: a registration is matched whatever white space stands
\* between the token and the parenthesis and between the parenthesis and
\* the quoted name.
C7_AnyWhitespace ==
    (last.op = "search" /\ RegistersName /\ RightToken) => Matched

\* C7 as amended: a registration is matched whatever white space stands
\* between the parenthesis and the quoted name, provided none stands between
\* the token and the parenthesis; with white space there it is not matched.
C7_WhitespaceAfterParenthesisOnly ==
    (last.op = "search" /\ RegistersName /\ RightToken) =>
       (Matched <=> text.before = 0)

C7_Witness ==
    /\ last.op = "search" /\ Matched
    /\ member.kind = "function" /\ text.after >= 2 /\ text.before = 0

\* C8: with Project.toml present, no run ends in an exception: not without
\* --cpp-files either.
C8_NoErrorEscapes == project_toml => pc # "raised"

\* C9: is_namespace is true exactly for a symbol whose documentation file is
\* the one found under the prefix "namespace".
C9_NamespaceIffNamespaceFile ==
    last.op = "is_namespace" =>
       (last.ret = "True" <=>
           (Resolves(last.thing) /\ HasPrefix(ResolvedFile(last.thing), "namespace")))

\* C10 as claimed: once a symbol is in the cache, no step changes its entry
\* or opens a documentation file for it.
C10_CacheNeverRead ==
    [][\A t \in DOMAIN DOXY_DICT :
          /\ t \in DOMAIN DOXY_DICT' /\ DOXY_DICT'[t] = DOXY_DICT[t]
          /\ xml_reads'[t] = xml_reads[t]]_vars

\* C10 as amended: once a symbol is in the cache, no step changes its entry;
\* get_xml, is_typedef and is_variable open no documentation file for it,
\* and neither does any other operation when the symbol's file is found by
\* its name.  (The operations that ask is_namespace resolve the symbol
\* again, and that reads the group files of a symbol found by the search.)
C10_CacheEntryFrame ==
    [][\A t \in DOMAIN DOXY_DICT :
          /\ t \in DOMAIN DOXY_DICT' /\ DOXY_DICT'[t] = DOXY_DICT[t]
          /\ (last'.op \in {"get_xml", "is_typedef", "is_variable"} \/ FoundByName(t))
                => xml_reads'[t] = xml_reads[t]]_vars

\* A symbol found by the search of the group files is in the cache, and
\* is_namespace has then read the group files again.
C10_Witness ==
    /\ last.op = "is_namespace" /\ last.ret = "False"
    /\ last.thing \in DOMAIN DOXY_DICT
    /\ ~FoundByName(last.thing)
    /\ xml_reads[last.thing] >= 5

====
